---- MODULE Spec2Model ----
(***************************************************************************)
(* Model of the jewellery-inventory backend: auth.py (password hashing,    *)
(* JWT issue/verify, get_current_user, require_role), models.py (UserRole) *)
(* and the request handlers of server.py, each handler cut at its awaits.  *)
(***************************************************************************)
EXTENDS Integers, Sequences, FiniteSets, TLC

VARIABLES
    db_ready,         \* app.state.db has been set by lifespan
    users,            \* db.users, in insertion order
    metal_prices,     \* db.metal_prices, in insertion order
    inventory_items,  \* db.inventory_items, in insertion order
    now,              \* wall clock, in ticks
    req,              \* in-flight and finished requests, one record per slot
    uuid_seq,         \* number of inventory uuids drawn so far
    issued,           \* tokens handed out by register/login, with their user
    tok_token,        \* token under test of the token-service harness
    tok_result,       \* what decode_access_token answered for tok_token, and when
    tok_issue,        \* the create_access_token call that made tok_token, if any
    pw_check,         \* the last verify_password(s1, hash_password(s2)) and its answer
    agent_cache,      \* app.state.agent_cache: agent type -> cached instance
    agent_built,      \* agent type -> number of instances constructed so far
    agent_req         \* requests to the agent endpoints, one record per slot

vars == <<db_ready, users, metal_prices, inventory_items, now, req, uuid_seq,
          issued, tok_token, tok_result, tok_issue, pw_check, agent_cache,
          agent_built, agent_req>>

stores == <<users, metal_prices, inventory_items, uuid_seq>>
harness == <<tok_token, tok_result, tok_issue, pw_check>>
agents == <<agent_cache, agent_built, agent_req>>

(***************************************************************************)
(* Bounds of the model.                                                    *)
(***************************************************************************)
TicksPerSecond == 2
MaxTicks == 3
MaxDays == 1
MaxUsers == 2
MaxIssued == 1
MaxPrices == 2
MaxItems == 2
MaxBuilt == 2

(***************************************************************************)
(* models.py                                                               *)
(***************************************************************************)
ADMIN == "admin"
MANAGER == "manager"
SALESPERSON == "salesperson"
UserRole == {ADMIN, MANAGER, SALESPERSON}

(***************************************************************************)
(* auth.py: configuration                                                  *)
(***************************************************************************)
SECRET_KEY == "your-secret-key-change-in-production"
ALGORITHM == "HS256"
ACCESS_TOKEN_EXPIRE_MINUTES == 60 * 24

\* timedelta(minutes=m) in ticks
Minutes(m) == m * 60 * TicksPerSecond
DayTicks == Minutes(ACCESS_TOKEN_EXPIRE_MINUTES)
DaySeconds == ACCESS_TOKEN_EXPIRE_MINUTES * 60

(***************************************************************************)
(* Inputs.  The empty string is a username the UserCreate model accepts.   *)
(***************************************************************************)
Usernames == {"", "alice", "bob"}
Emails == {"a@x", "b@x"}
Passwords == {"pw1", "pw2"}
Salts == {"salt1", "salt2"}

None == "<none>"
NoExp == -1
OtherKey == "some-other-key"

TokenKeys == {SECRET_KEY, OtherKey}
TokenAlgs == {ALGORITHM, "none"}
ExpSeconds == {0, 1, DaySeconds, DaySeconds + 1, 2 * DaySeconds}

\* A serialized token: its JWS structure, the algorithm of its header, the key
\* its signature was made with, and the claims of its payload (None: no claim).
Tokens ==
    [structure : {"jws", "garbage"}, alg : TokenAlgs, key : TokenKeys,
     sub : Usernames \cup {None}, role : UserRole \cup {None},
     exp : ExpSeconds \cup {NoExp}]

NoToken ==
    [structure |-> "none", alg |-> None, key |-> None, sub |-> None,
     role |-> None, exp |-> NoExp]

(***************************************************************************)
(* auth.py: hash_password / verify_password.  bcrypt embeds the salt in    *)
(* the hash and recomputes the digest with it on verification.  bcrypt     *)
(* works on the first 72 bytes of the password: the releases before 5.0    *)
(* drop the rest silently, the later ones raise ValueError for a longer    *)
(* password.  Passwords here are ASCII, one byte per character.            *)
(***************************************************************************)
BcryptMaxBytes == 72

BcryptOnLongPassword == {"truncate", "ValueError"}

bcrypt_key(password) ==
    IF Len(password) > BcryptMaxBytes THEN SubSeq(password, 1, BcryptMaxBytes)
    ELSE password

bcrypt_hashpw(password, salt) ==
    [salt |-> salt, digest |-> <<salt, bcrypt_key(password)>>]

hash_password(password, salt) == bcrypt_hashpw(password, salt)

verify_password(plain_password, hashed_password) ==
    bcrypt_hashpw(plain_password, hashed_password.salt) = hashed_password

(***************************************************************************)
(* auth.py: create_access_token.  expires_delta is Optional[timedelta]:    *)
(* NoDelta for None, Delta(d) for a timedelta of d ticks.  `expires_delta  *)
(* or default` takes the default for None and for a zero timedelta.        *)
(* jwt.encode writes exp as whole seconds (timegm of the datetime),        *)
(* dropping the sub-second part.                                           *)
(***************************************************************************)
NoDelta == [given |-> FALSE, ticks |-> 0]
Delta(d) == [given |-> TRUE, ticks |-> d]

\* an issuer that encodes the subject only
create_access_token_sub_only(data, expires_delta, t) ==
    LET delta == IF ~expires_delta.given \/ expires_delta.ticks = 0
                 THEN Minutes(ACCESS_TOKEN_EXPIRE_MINUTES)
                 ELSE expires_delta.ticks
        expire == t + delta
    IN  [structure |-> "jws", alg |-> ALGORITHM, key |-> SECRET_KEY,
         sub |-> data.sub, role |-> None,
         exp |-> expire \div TicksPerSecond]

create_access_token(data, expires_delta, t) ==
    LET delta == IF ~expires_delta.given \/ expires_delta.ticks = 0
                 THEN Minutes(ACCESS_TOKEN_EXPIRE_MINUTES)
                 ELSE expires_delta.ticks
        expire == t + delta
    IN  [structure |-> "jws", alg |-> ALGORITHM, key |-> SECRET_KEY,
         sub |-> data.sub, role |-> data.role,
         exp |-> expire \div TicksPerSecond]

(***************************************************************************)
(* auth.py: decode_access_token.  jwt.decode parses the token, verifies    *)
(* the header algorithm against [ALGORITHM] and the signature against      *)
(* SECRET_KEY, and only then validates exp against the clock               *)
(* (exp <= now raises ExpiredSignatureError; a token without exp passes).  *)
(***************************************************************************)
HTTPException(status_code, detail) ==
    [ok |-> FALSE, status |-> status_code, detail |-> detail]

\* a verifier that does not check the signature against its key
SignatureVerifiesAnyKey(token) ==
    /\ token.structure = "jws"
    /\ token.alg = ALGORITHM

SignatureVerifies(token) ==
    /\ token.structure = "jws"
    /\ token.alg = ALGORITHM
    /\ token.key = SECRET_KEY

\* an expiry test on whole seconds: the clock truncated, the comparison strict
IsExpiredWholeSeconds(token, t) ==
    /\ token.exp # NoExp
    /\ token.exp < t \div TicksPerSecond

IsExpired(token, t) ==
    /\ token.exp # NoExp
    /\ token.exp * TicksPerSecond <= t

decode_access_token(token, t) ==
    IF ~SignatureVerifies(token)
    THEN HTTPException(401, "Invalid token")
    ELSE IF IsExpired(token, t)
    THEN HTTPException(401, "Token has expired")
    ELSE [ok |-> TRUE,
          payload |-> [sub |-> token.sub, role |-> token.role, exp |-> token.exp]]

(***************************************************************************)
(* Store and request records.  A User carries the fields the handlers      *)
(* read; its uuid and created_at are never read back and are left out.     *)
(***************************************************************************)
NoUser ==
    [username |-> None, email |-> None,
     hashed_password |-> [salt |-> None, digest |-> <<None, None>>],
     role |-> None]

User(username, email, hashed_password, role) ==
    [username |-> username, email |-> email,
     hashed_password |-> hashed_password, role |-> role]

\* Authorization header: absent, or "<scheme> <credentials>".
NoHeader == [present |-> FALSE, scheme |-> None, credentials |-> NoToken]
Bearer(token) == [present |-> TRUE, scheme |-> "Bearer", credentials |-> token]
Basic(token) == [present |-> TRUE, scheme |-> "Basic", credentials |-> token]

NoBody == [empty |-> TRUE]

Request(endpoint, header, body) ==
    [pc |-> "start", endpoint |-> endpoint, header |-> header, body |-> body,
     username |-> None, user |-> NoUser, status |-> 0, detail |-> None,
     result |-> NoBody, steps |-> <<>>]

IdleReq == [Request(None, NoHeader, NoBody) EXCEPT !.pc = "done"]

\* The response of a handler that raised HTTPException (or, for status 500,
\* let another exception escape).
Raise(q, status_code, detail) ==
    [q EXCEPT !.pc = "done", !.status = status_code, !.detail = detail]

Return(q, result) ==
    [q EXCEPT !.pc = "done", !.status = 200, !.result = result]

Step(q, name) == [q EXCEPT !.steps = Append(@, name)]

\* collection.find_one({field: value}): the first matching document, if any.
Matching(coll, field, value) == {i \in 1..Len(coll) : coll[i][field] = value}

Min(S) == CHOOSE x \in S : \A y \in S : x <= y

find_one(coll, field, value, none) ==
    IF Matching(coll, field, value) = {} THEN none
    ELSE coll[Min(Matching(coll, field, value))]

(***************************************************************************)
(* server.py: endpoints and the allow-list each passes to require_role.    *)
(***************************************************************************)
AllRoles == {ADMIN, MANAGER, SALESPERSON}

GuardedEndpoints ==
    {"get_current_user_info", "update_metal_prices", "get_inventory",
     "create_inventory_item", "get_inventory_item", "update_inventory_item",
     "delete_inventory_item"}

\* /auth/me calls get_current_user without require_role.
HasRoleCheck(endpoint) == endpoint # "get_current_user_info"

\* allow-lists one role too wide
allowed_roles_widened(endpoint) ==
    CASE endpoint = "update_metal_prices" -> {ADMIN, MANAGER}
      [] OTHER -> {ADMIN, MANAGER, SALESPERSON}

allowed_roles(endpoint) ==
    CASE endpoint = "update_metal_prices" -> {ADMIN}
      [] endpoint = "get_inventory" -> {ADMIN, MANAGER, SALESPERSON}
      [] endpoint = "create_inventory_item" -> {ADMIN, MANAGER}
      [] endpoint = "get_inventory_item" -> {ADMIN, MANAGER, SALESPERSON}
      [] endpoint = "update_inventory_item" -> {ADMIN, MANAGER}
      [] endpoint = "delete_inventory_item" -> {ADMIN, MANAGER}
      [] OTHER -> AllRoles

(***************************************************************************)
(* auth.py: security = HTTPBearer().  A missing header, a header without   *)
(* credentials or a scheme other than bearer is refused before the handler *)
(* runs; the status is 403 in the FastAPI releases before 0.122 and 401    *)
(* from then on.                                                           *)
(***************************************************************************)
HTTPBearerStatus == {403, 401}

security(header) == header.present /\ header.scheme = "Bearer"

(***************************************************************************)
(* auth.py: get_current_user up to its await (lines 53-61), then the       *)
(* find_one and what follows it (lines 61-66), and role_checker's test     *)
(* (lines 77-83).                                                          *)
(***************************************************************************)
\* a test for an absent claim only (`username is None`)
IsNone(username) == username = None

\* `not username`: no sub claim, or an empty one
Falsy(username) == username = None \/ username = ""

\* a resolver that goes on to the lookup with the claims of a token that did
\* not verify
get_current_user_begin_unverified(q, t, has_db) ==
    LET q1 == Step(q, "decode")
    IN  IF Falsy(q.header.credentials.sub)
        THEN Raise(q1, 401, "Invalid token payload")
        ELSE IF ~has_db THEN Raise(q1, 500, "AttributeError: db")
        ELSE [q1 EXCEPT !.pc = "find_user", !.username = q.header.credentials.sub]

get_current_user_begin(q, t, has_db) ==
    LET decoded == decode_access_token(q.header.credentials, t)
        q1 == Step(q, "decode")
    IN  IF ~decoded.ok THEN Raise(q1, decoded.status, decoded.detail)
        ELSE IF Falsy(decoded.payload.sub)
        THEN Raise(q1, 401, "Invalid token payload")
        ELSE IF ~has_db THEN Raise(q1, 500, "AttributeError: db")
        ELSE [q1 EXCEPT !.pc = "find_user", !.username = decoded.payload.sub]

\* a membership test on the role enumeration instead of the allow-list
role_is_known(user, roles) == user.role \in UserRole

role_allowed(user, roles) == user.role \in roles

\* a guard that trusts the role claim of the token instead of the stored role
role_checker_end_by_claim(q, user_data) ==
    LET q1 == Step(q, "lookup")
        q2 == [Step(q1, "role_check") EXCEPT !.user = user_data]
    IN  IF user_data = NoUser THEN Raise(q1, 401, "User not found")
        ELSE IF ~HasRoleCheck(q.endpoint)
        THEN [q1 EXCEPT !.user = user_data, !.pc = "body"]
        ELSE IF q.header.credentials.role \notin allowed_roles(q.endpoint)
        THEN Raise(q2, 403, "Access denied")
        ELSE [q2 EXCEPT !.pc = "body"]

\* a guard that lets a request pass when either the stored role or the role
\* claim of the token is in the allow-list
role_checker_end_claim_or_stored(q, user_data) ==
    LET q1 == Step(q, "lookup")
        q2 == [Step(q1, "role_check") EXCEPT !.user = user_data]
    IN  IF user_data = NoUser THEN Raise(q1, 401, "User not found")
        ELSE IF ~HasRoleCheck(q.endpoint)
        THEN [q1 EXCEPT !.user = user_data, !.pc = "body"]
        ELSE IF /\ user_data.role \notin allowed_roles(q.endpoint)
                /\ q.header.credentials.role \notin allowed_roles(q.endpoint)
        THEN Raise(q2, 403, "Access denied")
        ELSE [q2 EXCEPT !.pc = "body"]

role_checker_end(q, user_data) ==
    LET q1 == Step(q, "lookup")
        q2 == [Step(q1, "role_check") EXCEPT !.user = user_data]
    IN  IF user_data = NoUser THEN Raise(q1, 401, "User not found")
        ELSE IF ~HasRoleCheck(q.endpoint)
        THEN [q1 EXCEPT !.user = user_data, !.pc = "body"]
        ELSE IF ~role_allowed(user_data, allowed_roles(q.endpoint))
        THEN Raise(q2, 403, "Access denied")
        ELSE [q2 EXCEPT !.pc = "body"]

\* server.py: _ensure_db
_ensure_db(q, has_db) ==
    IF has_db THEN Step(q, "ensure_db")
    ELSE Raise(Step(q, "ensure_db"), 503, "Database not ready")

(***************************************************************************)
(* models.py documents, and Optional[...] request fields.                  *)
(***************************************************************************)
Nothing == [given |-> FALSE, value |-> 0]
Some(v) == [given |-> TRUE, value |-> v]

MetalPrice(gold_price, silver_price, platinum_price, updated_at, updated_by) ==
    [gold_price |-> gold_price, silver_price |-> silver_price,
     platinum_price |-> platinum_price, updated_at |-> updated_at,
     updated_by |-> updated_by]

InventoryItem(id, item_create, created_at, created_by) ==
    [id |-> id, sku |-> item_create.sku, name |-> item_create.name,
     cost_price |-> item_create.cost_price, created_at |-> created_at,
     updated_at |-> created_at, created_by |-> created_by]

NoItem ==
    [id |-> 0, sku |-> None, name |-> None, cost_price |-> 0, created_at |-> 0,
     updated_at |-> 0, created_by |-> None]

UserResponse(user) ==
    [username |-> user.username, email |-> user.email, role |-> user.role]

Token(access_token, user) ==
    [access_token |-> access_token, user |-> UserResponse(user)]

(***************************************************************************)
(* server.py: the agent cache.  An instance is told from another of its    *)
(* type by its serial number, the count of constructions of that type.     *)
(***************************************************************************)
AgentTypes == {"chat", "search"}

ClassOf(agent_type) == IF agent_type = "search" THEN "SearchAgent" ELSE "ChatAgent"

Agent(agent_type, serial) ==
    [agent_type |-> agent_type, class |-> ClassOf(agent_type), serial |-> serial]

NoAgent == [agent_type |-> None, class |-> None, serial |-> 0]

\* an empty cache; a type is "in" the cache when its entry is an instance
NoAgents == [t \in AgentTypes |-> NoAgent]

InCache(cache, agent_type) ==
    agent_type \in AgentTypes /\ cache[agent_type] # NoAgent

\* a lookup that never finds its type in the cache
_get_or_create_agent_always_builds(cache, built, agent_type, has_config, constructs) ==
    IF agent_type \in AgentTypes /\ has_config /\ constructs
    THEN LET agent == Agent(agent_type, built[agent_type] + 1)
         IN  [cache |-> [cache EXCEPT ![agent_type] = agent],
              built |-> [built EXCEPT ![agent_type] = @ + 1],
              agent |-> agent, raised |-> None]
    ELSE [cache |-> cache, built |-> built, agent |-> NoAgent,
          raised |-> IF agent_type \in AgentTypes THEN "Exception"
                     ELSE "HTTPException"]

\* _get_or_create_agent has no await: it runs in one step.  has_config tells
\* whether lifespan has set app.state.agent_config; constructs tells whether
\* the constructor returns or raises.
_get_or_create_agent(cache, built, agent_type, has_config, constructs) ==
    LET Raised(exc) ==
            [cache |-> cache, built |-> built, agent |-> NoAgent, raised |-> exc]
    IN  IF InCache(cache, agent_type)
        THEN [cache |-> cache, built |-> built, agent |-> cache[agent_type],
              raised |-> None]
        ELSE IF ~has_config THEN Raised("AttributeError")
        ELSE IF agent_type \in AgentTypes
        THEN IF constructs
             THEN LET agent == Agent(agent_type, built[agent_type] + 1)
                  IN  [cache |-> [cache EXCEPT ![agent_type] = agent],
                       built |-> [built EXCEPT ![agent_type] = @ + 1],
                       agent |-> agent, raised |-> None]
             ELSE Raised("Exception")
        ELSE Raised("HTTPException")

AgentRequest(endpoint, agent_type) ==
    [pc |-> "start", endpoint |-> endpoint, agent_type |-> agent_type,
     agents |-> <<>>, status |-> 0, detail |-> None, success |-> FALSE]

IdleAgentReq == [AgentRequest(None, None) EXCEPT !.pc = "done"]

\* what the handler makes of _get_or_create_agent's outcome: HTTPException is
\* re-raised, any other exception becomes a 200 response with success false,
\* and with an agent in hand the handler awaits agent.execute
AfterGet(q, g) ==
    IF g.raised = "HTTPException"
    THEN [q EXCEPT !.pc = "done", !.status = 400, !.detail = "Unknown agent type"]
    ELSE IF g.raised # None
    THEN [q EXCEPT !.pc = "done", !.status = 200, !.detail = g.raised]
    ELSE [q EXCEPT !.pc = "execute", !.agents = Append(@, g.agent)]

(***************************************************************************)
(* server.py: lifespan sets app.state.db at startup.                       *)
(***************************************************************************)
SetReq(r, q) == req' = [req EXCEPT ![r] = q]

lifespan ==
    /\ ~db_ready
    /\ db_ready' = TRUE
    /\ agent_cache' = NoAgents
    /\ UNCHANGED <<stores, now, req, issued, harness, agent_built, agent_req>>

(***************************************************************************)
(* A guarded request: the security dependency, then role_checker (or, for  *)
(* /auth/me, the handler) calls get_current_user, which runs up to its     *)
(* find_one.                                                               *)
(***************************************************************************)
role_checker_begin(r, endpoint, header, body, code) ==
    /\ req[r].pc = "done"
    /\ LET q == Step(Request(endpoint, header, body), "security")
       IN  SetReq(r, IF ~security(header)
                     THEN Raise(q, code, "Not authenticated")
                     ELSE get_current_user_begin(q, now, db_ready))
    /\ UNCHANGED <<db_ready, stores, now, issued, harness, agents>>

(***************************************************************************)
(* The handler bodies of the guarded endpoints up to their first await.    *)
(***************************************************************************)
update_metal_prices_begin(q, t) ==
    LET price_update == q.body
        platinum == IF price_update.platinum_price.given
                       /\ price_update.platinum_price.value # 0
                    THEN price_update.platinum_price.value ELSE 0
    IN  [q EXCEPT !.pc = "prices_insert",
                  !.result = MetalPrice(price_update.gold_price,
                                        price_update.silver_price, platinum, t,
                                        q.user.username)]

endpoint_begin(q, t, has_db) ==
    IF q.endpoint = "get_current_user_info" THEN Return(q, UserResponse(q.user))
    ELSE LET q1 == _ensure_db(Step(q, "body"), has_db)
         IN  IF q1.pc = "done" THEN q1
             ELSE CASE q.endpoint = "update_metal_prices" ->
                         update_metal_prices_begin(q1, t)
                    [] q.endpoint = "get_inventory" ->
                         [q1 EXCEPT !.pc = "inventory_find"]
                    [] q.endpoint = "create_inventory_item" ->
                         [q1 EXCEPT !.pc = "create_find_sku"]
                    [] q.endpoint = "get_inventory_item" ->
                         [q1 EXCEPT !.pc = "item_find"]
                    [] q.endpoint = "update_inventory_item" ->
                         [q1 EXCEPT !.pc = "update_find"]
                    [] q.endpoint = "delete_inventory_item" ->
                         [q1 EXCEPT !.pc = "delete_one"]

\* a resolver that keeps the subject in one place shared by all requests: the
\* lookup uses the subject of whichever request wrote it last
get_current_user_find_one_shared(r) ==
    /\ req[r].pc = "find_user"
    /\ LET last == CHOOSE s \in DOMAIN req :
                       /\ req[s].pc = "find_user"
                       /\ \A s2 \in DOMAIN req : req[s2].pc = "find_user" => s2 <= s
           user_data == find_one(users, "username", req[last].username, NoUser)
           q == role_checker_end(req[r], user_data)
       IN  SetReq(r, IF q.pc = "body" THEN endpoint_begin(q, now, db_ready) ELSE q)
    /\ UNCHANGED <<db_ready, stores, now, issued, harness, agents>>

\* a resolver with a cache: a subject that a finished request already
\* resolved is answered from that request instead of the store
get_current_user_find_one_cached(r) ==
    /\ req[r].pc = "find_user"
    /\ LET hits == {s \in DOMAIN req : /\ req[s].pc = "done"
                                       /\ req[s].user # NoUser
                                       /\ req[s].user.username = req[r].username}
           user_data == IF hits # {} THEN req[CHOOSE s \in hits : TRUE].user
                        ELSE find_one(users, "username", req[r].username, NoUser)
           q == role_checker_end(req[r], user_data)
       IN  SetReq(r, IF q.pc = "body" THEN endpoint_begin(q, now, db_ready) ELSE q)
    /\ UNCHANGED <<db_ready, stores, now, issued, harness, agents>>

\* a guard that writes: it removes the record of a user it refuses
get_current_user_find_one_lockout(r) ==
    /\ req[r].pc = "find_user"
    /\ LET hits == Matching(users, "username", req[r].username)
           user_data == find_one(users, "username", req[r].username, NoUser)
           q == role_checker_end(req[r], user_data)
       IN  /\ SetReq(r, IF q.pc = "body" THEN endpoint_begin(q, now, db_ready) ELSE q)
           /\ users' = IF q.status = 403
                        THEN SubSeq(users, 1, Min(hits) - 1) \o
                             SubSeq(users, Min(hits) + 1, Len(users))
                        ELSE users
    /\ UNCHANGED <<db_ready, metal_prices, inventory_items, uuid_seq, now, issued,
                   harness, agents>>

\* db.users.find_one of get_current_user, and the code that runs on its answer
get_current_user_find_one(r) ==
    /\ req[r].pc = "find_user"
    /\ LET user_data == find_one(users, "username", req[r].username, NoUser)
           q == role_checker_end(req[r], user_data)
       IN  SetReq(r, IF q.pc = "body" THEN endpoint_begin(q, now, db_ready) ELSE q)
    /\ UNCHANGED <<db_ready, stores, now, issued, harness, agents>>

(***************************************************************************)
(* server.py: register                                                     *)
(***************************************************************************)
InFlight(pcs) == Cardinality({r \in DOMAIN req : req[r].pc \in pcs})

register_begin(r, user_create) ==
    /\ req[r].pc = "done"
    /\ Len(users) + InFlight({"register_find_username", "register_find_email",
                              "register_insert_one"}) < MaxUsers
    /\ LET q == _ensure_db(Request("register", NoHeader, user_create), db_ready)
       IN  SetReq(r, IF q.pc = "done" THEN q
                     ELSE [q EXCEPT !.pc = "register_find_username"])
    /\ UNCHANGED <<db_ready, stores, now, issued, harness, agents>>

register_find_username(r) ==
    /\ req[r].pc = "register_find_username"
    /\ LET existing_user ==
               find_one(users, "username", req[r].body.username, NoUser)
       IN  SetReq(r, IF existing_user # NoUser
                     THEN Raise(req[r], 400, "Username already exists")
                     ELSE [req[r] EXCEPT !.pc = "register_find_email"])
    /\ UNCHANGED <<db_ready, stores, now, issued, harness, agents>>

\* a registration that does not look the email up
register_find_email_unchecked(r, salt) ==
    /\ req[r].pc = "register_find_email"
    /\ LET user_create == req[r].body
           user == User(user_create.username, user_create.email,
                        hash_password(user_create.password, salt),
                        user_create.role)
       IN  SetReq(r, [req[r] EXCEPT !.pc = "register_insert_one", !.user = user])
    /\ UNCHANGED <<db_ready, stores, now, issued, harness, agents>>

register_find_email(r, salt) ==
    /\ req[r].pc = "register_find_email"
    /\ LET user_create == req[r].body
           existing_email == find_one(users, "email", user_create.email, NoUser)
           user == User(user_create.username, user_create.email,
                        hash_password(user_create.password, salt),
                        user_create.role)
       IN  SetReq(r, IF existing_email # NoUser
                     THEN Raise(req[r], 400, "Email already exists")
                     ELSE [req[r] EXCEPT !.pc = "register_insert_one",
                                         !.user = user])
    /\ UNCHANGED <<db_ready, stores, now, issued, harness, agents>>

\* the token a handler hands out is remembered, with the user it was made for
Remember(keep, access_token, user) ==
    issued' = IF keep /\ Cardinality(issued) < MaxIssued
              THEN issued \cup {[token |-> access_token, user |-> user]}
              ELSE issued

register_insert_one(r, keep) ==
    /\ req[r].pc = "register_insert_one"
    /\ LET user == req[r].user
           access_token ==
               create_access_token([sub |-> user.username, role |-> user.role],
                                   NoDelta, now)
       IN  /\ users' = Append(users, user)
           /\ SetReq(r, Return(req[r], Token(access_token, user)))
           /\ Remember(keep, access_token, user)
    /\ UNCHANGED <<db_ready, metal_prices, inventory_items, uuid_seq, now, harness, agents>>

(***************************************************************************)
(* server.py: login                                                        *)
(***************************************************************************)
login_begin(r, user_login) ==
    /\ req[r].pc = "done"
    /\ LET q == _ensure_db(Request("login", NoHeader, user_login), db_ready)
       IN  SetReq(r, IF q.pc = "done" THEN q ELSE [q EXCEPT !.pc = "login_find_one"])
    /\ UNCHANGED <<db_ready, stores, now, issued, harness, agents>>

login_find_one(r, keep) ==
    /\ req[r].pc = "login_find_one"
    /\ LET user_login == req[r].body
           user == find_one(users, "username", user_login.username, NoUser)
           access_token ==
               create_access_token([sub |-> user.username, role |-> user.role],
                                   NoDelta, now)
           ok == /\ user # NoUser
                 /\ verify_password(user_login.password, user.hashed_password)
       IN  /\ SetReq(r, IF ok
                        THEN Return([req[r] EXCEPT !.user = user],
                                    Token(access_token, user))
                        ELSE Raise(req[r], 401, "Invalid username or password"))
           /\ IF ok THEN Remember(keep, access_token, user)
              ELSE UNCHANGED issued
    /\ UNCHANGED <<db_ready, stores, now, harness, agents>>

(***************************************************************************)
(* server.py: metal prices                                                 *)
(***************************************************************************)
update_metal_prices_insert_one(r) ==
    /\ req[r].pc = "prices_insert"
    /\ Len(metal_prices) < MaxPrices
    /\ metal_prices' = Append(metal_prices, req[r].result)
    /\ SetReq(r, Return(req[r], req[r].result))
    /\ UNCHANGED <<db_ready, users, inventory_items, uuid_seq, now, issued, harness, agents>>

get_metal_prices_begin(r) ==
    /\ req[r].pc = "done"
    /\ LET q == _ensure_db(Request("get_metal_prices", NoHeader, NoBody), db_ready)
       IN  SetReq(r, IF q.pc = "done" THEN q ELSE [q EXCEPT !.pc = "prices_find_one"])
    /\ UNCHANGED <<db_ready, stores, now, issued, harness, agents>>

\* find_one(sort=[("updated_at", -1)]): a document with the greatest updated_at
Latest(coll) ==
    {i \in 1..Len(coll) : \A j \in 1..Len(coll) : coll[j].updated_at <= coll[i].updated_at}

get_metal_prices_find_one(r) ==
    /\ req[r].pc = "prices_find_one"
    /\ IF metal_prices = <<>>
       THEN SetReq(r, Return(req[r], MetalPrice(0, 0, 0, now, "system")))
       ELSE \E i \in Latest(metal_prices) : SetReq(r, Return(req[r], metal_prices[i]))
    /\ UNCHANGED <<db_ready, stores, now, issued, harness, agents>>

(***************************************************************************)
(* server.py: inventory                                                    *)
(***************************************************************************)
RECURSIVE SortByCreatedDesc(_)
SortByCreatedDesc(coll) ==
    IF coll = <<>> THEN <<>>
    ELSE LET i == Min(Latest([k \in 1..Len(coll) |->
                                 [updated_at |-> coll[k].created_at]]))
         IN  <<coll[i]>> \o
             SortByCreatedDesc(SubSeq(coll, 1, i - 1) \o SubSeq(coll, i + 1, Len(coll)))

get_inventory_find(r) ==
    /\ req[r].pc = "inventory_find"
    /\ SetReq(r, Return(req[r], SortByCreatedDesc(inventory_items)))
    /\ UNCHANGED <<db_ready, stores, now, issued, harness, agents>>

create_inventory_item_find_one(r) ==
    /\ req[r].pc = "create_find_sku"
    /\ uuid_seq < MaxItems
    /\ LET existing_item == find_one(inventory_items, "sku", req[r].body.sku, NoItem)
           item == InventoryItem(uuid_seq + 1, req[r].body, now, req[r].user.username)
       IN  IF existing_item # NoItem
           THEN /\ SetReq(r, Raise(req[r], 400, "SKU already exists"))
                /\ UNCHANGED uuid_seq
           ELSE /\ SetReq(r, [req[r] EXCEPT !.pc = "create_insert_one",
                                            !.result = item])
                /\ uuid_seq' = uuid_seq + 1
    /\ UNCHANGED <<db_ready, users, metal_prices, inventory_items, now, issued, harness, agents>>

create_inventory_item_insert_one(r) ==
    /\ req[r].pc = "create_insert_one"
    /\ inventory_items' = Append(inventory_items, req[r].result)
    /\ SetReq(r, Return(req[r], req[r].result))
    /\ UNCHANGED <<db_ready, users, metal_prices, uuid_seq, now, issued, harness, agents>>

get_inventory_item_find_one(r) ==
    /\ req[r].pc = "item_find"
    /\ LET item_data == find_one(inventory_items, "id", req[r].body.item_id, NoItem)
       IN  SetReq(r, IF item_data = NoItem THEN Raise(req[r], 404, "Item not found")
                     ELSE Return(req[r], item_data))
    /\ UNCHANGED <<db_ready, stores, now, issued, harness, agents>>

\* the whole model_dump(), nulls included, plus updated_at
update_data_unfiltered(item_update, t) ==
    [name |-> Some(IF item_update.name.given THEN item_update.name.value ELSE None),
     cost_price |-> Some(item_update.cost_price.value),
     updated_at |-> Some(t)]

\* {k: v for k, v in item_update.model_dump().items() if v is not None},
\* plus updated_at
update_data(item_update, t) ==
    [name |-> item_update.name, cost_price |-> item_update.cost_price,
     updated_at |-> Some(t)]

\* {"$set": data} on one document
ApplySet(item, data) ==
    [item EXCEPT !.name = IF data.name.given THEN data.name.value ELSE @,
                 !.cost_price = IF data.cost_price.given
                                THEN data.cost_price.value ELSE @,
                 !.updated_at = IF data.updated_at.given
                                THEN data.updated_at.value ELSE @]

update_inventory_item_find_one(r) ==
    /\ req[r].pc = "update_find"
    /\ LET item_data == find_one(inventory_items, "id", req[r].body.item_id, NoItem)
       IN  SetReq(r, IF item_data = NoItem THEN Raise(req[r], 404, "Item not found")
                     ELSE [req[r] EXCEPT !.pc = "update_one",
                                         !.result = update_data(req[r].body, now)])
    /\ UNCHANGED <<db_ready, stores, now, issued, harness, agents>>

update_inventory_item_update_one(r) ==
    /\ req[r].pc = "update_one"
    /\ LET hits == Matching(inventory_items, "id", req[r].body.item_id)
       IN  inventory_items' =
               IF hits = {} THEN inventory_items
               ELSE [inventory_items EXCEPT
                        ![Min(hits)] = ApplySet(@, req[r].result)]
    /\ SetReq(r, [req[r] EXCEPT !.pc = "update_refetch"])
    /\ UNCHANGED <<db_ready, users, metal_prices, uuid_seq, now, issued, harness, agents>>

\* InventoryItem(**updated_item) raises TypeError when find_one answered None
update_inventory_item_refetch(r) ==
    /\ req[r].pc = "update_refetch"
    /\ LET updated_item == find_one(inventory_items, "id", req[r].body.item_id, NoItem)
       IN  SetReq(r, IF updated_item = NoItem
                     THEN Raise(req[r], 500, "TypeError: NoneType")
                     ELSE Return(req[r], updated_item))
    /\ UNCHANGED <<db_ready, stores, now, issued, harness, agents>>

delete_inventory_item_delete_one(r) ==
    /\ req[r].pc = "delete_one"
    /\ LET hits == Matching(inventory_items, "id", req[r].body.item_id)
           i == Min(hits)
       IN  IF hits = {}
           THEN /\ SetReq(r, Raise(req[r], 404, "Item not found"))
                /\ UNCHANGED inventory_items
           ELSE /\ inventory_items' = SubSeq(inventory_items, 1, i - 1) \o
                                      SubSeq(inventory_items, i + 1, Len(inventory_items))
                /\ SetReq(r, Return(req[r], [success |-> TRUE]))
    /\ UNCHANGED <<db_ready, users, metal_prices, uuid_seq, now, issued, harness, agents>>

(***************************************************************************)
(* server.py: the agent endpoints                                          *)
(***************************************************************************)
SetAgents(r, q, g) ==
    /\ \A t \in AgentTypes : g.built[t] <= MaxBuilt
    /\ agent_cache' = g.cache
    /\ agent_built' = g.built
    /\ agent_req' = [agent_req EXCEPT ![r] = q]
    /\ UNCHANGED <<db_ready, stores, now, req, issued, harness>>

chat_with_agent_begin(r, agent_type, constructs) ==
    /\ agent_req[r].pc = "done"
    /\ LET g == _get_or_create_agent(agent_cache, agent_built, agent_type,
                                     db_ready, constructs)
       IN  SetAgents(r, AfterGet(AgentRequest("chat_with_agent", agent_type), g), g)

search_and_summarize_begin(r, constructs) ==
    /\ agent_req[r].pc = "done"
    /\ LET g == _get_or_create_agent(agent_cache, agent_built, "search",
                                     db_ready, constructs)
       IN  SetAgents(r, AfterGet(AgentRequest("search_and_summarize", "search"), g), g)

\* agent.execute returns a response (successful or not) or raises; each way
\* the handler answers 200
agent_execute(r, success) ==
    /\ agent_req[r].pc = "execute"
    /\ agent_req' = [agent_req EXCEPT ![r] = [@ EXCEPT !.pc = "done", !.status = 200,
                                                      !.success = success]]
    /\ UNCHANGED <<db_ready, stores, now, req, issued, harness, agent_cache,
                   agent_built>>

\* both lookups run without an await in between
get_agent_capabilities(r, search_constructs, chat_constructs) ==
    /\ agent_req[r].pc = "done"
    /\ LET q == AgentRequest("get_agent_capabilities", None)
           g1 == _get_or_create_agent(agent_cache, agent_built, "search",
                                      db_ready, search_constructs)
           g2 == _get_or_create_agent(g1.cache, g1.built, "chat", db_ready,
                                      chat_constructs)
           q1 == AfterGet(q, g1)
           q2 == AfterGet(q1, g2)
       IN  IF q1.pc = "done" THEN SetAgents(r, q1, g1)
           ELSE SetAgents(r, IF q2.pc = "done" THEN q2
                             ELSE [q2 EXCEPT !.pc = "done", !.status = 200,
                                             !.success = TRUE], g2)

(***************************************************************************)
(* The store is owned outside the handlers: a user's role can be changed   *)
(* there, by no endpoint of server.py.                                     *)
(***************************************************************************)
store_set_role(i, role) ==
    /\ i \in 1..Len(users)
    /\ users[i].role # role
    /\ users' = [users EXCEPT ![i].role = role]
    /\ UNCHANGED <<db_ready, metal_prices, inventory_items, uuid_seq, now, req,
                   issued, harness, agents>>

(***************************************************************************)
(* Token-service harness: a token and a verification time drawn from the   *)
(* bounded sets, and decode_access_token applied to them.                  *)
(***************************************************************************)
NoResult == [at |-> -1, out |-> HTTPException(0, "not run")]

NoCheck ==
    [done |-> FALSE, plain |-> "", secret |-> "", salt |-> None, raised |-> FALSE,
     value |-> FALSE]

NoIssue ==
    [data |-> [sub |-> None, role |-> None], expires_delta |-> NoDelta, at |-> -1]

Tick ==
    /\ now % DayTicks < MaxTicks
    /\ now' = now + 1
    /\ UNCHANGED <<db_ready, stores, req, issued, harness, agents>>

SkipDay ==
    /\ now \div DayTicks < MaxDays
    /\ now' = now + DayTicks
    /\ UNCHANGED <<db_ready, stores, req, issued, harness, agents>>

TokIssue(data, expires_delta) ==
    /\ tok_token' = create_access_token(data, expires_delta, now)
    /\ tok_result' = NoResult
    /\ tok_issue' = [data |-> data, expires_delta |-> expires_delta, at |-> now]
    /\ UNCHANGED <<db_ready, stores, now, req, issued, pw_check,
                 agents>>

TokDecode ==
    /\ tok_result' = [at |-> now, out |-> decode_access_token(tok_token, now)]
    /\ UNCHANGED <<db_ready, stores, now, req, issued, tok_token, tok_issue, pw_check,
                 agents>>

Req == {1, 2}

InitTok ==
    /\ db_ready = FALSE
    /\ users = <<>>
    /\ metal_prices = <<>>
    /\ inventory_items = <<>>
    /\ uuid_seq = 0
    /\ now = 0
    /\ req = [r \in Req |-> IdleReq]
    /\ issued = {}
    /\ tok_token \in Tokens
    /\ tok_result = NoResult
    /\ tok_issue = NoIssue
    /\ pw_check = NoCheck
    /\ agent_cache = NoAgents
    /\ agent_built = [t \in AgentTypes |-> 0]
    /\ agent_req = [r \in Req |-> IdleAgentReq]

\* the claim sets handed to create_access_token: the {"sub", "role"} of
\* register and login, and one that brings an "exp" of its own
TokenData ==
    [sub : Usernames, role : UserRole]
        \cup {[sub |-> "alice", role |-> ADMIN, exp |-> 1]}
TokenDeltas == {NoDelta} \cup {Delta(d) : d \in {0, 1, TicksPerSecond, DayTicks}}

NextTok ==
    \/ Tick
    \/ SkipDay
    \/ \E data \in TokenData, d \in TokenDeltas : TokIssue(data, d)
    \/ TokDecode

SpecTok == InitTok /\ [][NextTok]_vars

(***************************************************************************)
(* The service, one request at a time: registration, login, and requests   *)
(* to guarded endpoints carrying any header a client can send.             *)
(***************************************************************************)
Init ==
    /\ db_ready = FALSE
    /\ users = <<>>
    /\ metal_prices = <<>>
    /\ inventory_items = <<>>
    /\ uuid_seq = 0
    /\ now = 0
    /\ req = [r \in Req |-> IdleReq]
    /\ issued = {}
    /\ tok_token = NoToken
    /\ tok_result = NoResult
    /\ tok_issue = NoIssue
    /\ pw_check = NoCheck
    /\ agent_cache = NoAgents
    /\ agent_built = [t \in AgentTypes |-> 0]
    /\ agent_req = [r \in Req |-> IdleAgentReq]

\* Tokens a client can present besides the ones it was handed: signed with the
\* service's key (the key is a published default) with any subject, with an
\* expiry that passes or none at all, or not verifiable.
CraftedTokens ==
    {t \in Tokens :
        /\ t.role = ADMIN
        /\ \/ SignatureVerifies(t) /\ t.exp = 2 * DaySeconds
           \/ SignatureVerifies(t) /\ t.sub = "alice" /\ t.exp \in {1, NoExp}
           \/ /\ t.sub = "alice" /\ t.exp = 2 * DaySeconds
              /\ Cardinality({f \in {"structure", "alg", "key"} :
                                t[f] \in {"garbage", "none", OtherKey}}) = 1}

BadHeaders == {NoHeader, Basic(CHOOSE t \in CraftedTokens : SignatureVerifies(t))}

IssuedTokens == {x.token : x \in issued}

PriceInputs ==
    {[gold_price |-> 65, silver_price |-> 8, platinum_price |-> Some(12)],
     [gold_price |-> 70, silver_price |-> 9, platinum_price |-> Nothing]}

Skus == {"GN001", "GR001"}

ItemCreates == [sku : Skus, name : {"Ring"}, cost_price : {95}]

ItemUpdates ==
    [name : {Nothing, Some("Band")}, cost_price : {Nothing, Some(98)}]

\* The bodies a run sends: price updates, item creations, item updates, and
\* the item ids of the paths /inventory/{item_id}.
Inputs(prices, creates, updates, ids) ==
    [prices |-> prices, creates |-> creates, updates |-> updates, ids |-> ids]

BodiesOf(endpoint, inputs) ==
    CASE endpoint = "update_metal_prices" -> inputs.prices
      [] endpoint \in {"get_inventory_item", "delete_inventory_item"} ->
            {[item_id |-> i] : i \in inputs.ids}
      [] endpoint = "create_inventory_item" -> inputs.creates
      [] endpoint = "update_inventory_item" ->
            {[item_id |-> i, name |-> u.name, cost_price |-> u.cost_price] :
                i \in inputs.ids, u \in inputs.updates}
      [] OTHER -> {NoBody}

\* A request to a guarded endpoint arrives, with or without a usable header.
Guarded(r, endpoints, tokens, inputs) ==
    \E endpoint \in endpoints :
        \E body \in BodiesOf(endpoint, inputs) :
            \/ \E header \in BadHeaders, code \in HTTPBearerStatus :
                  role_checker_begin(r, endpoint, header, body, code)
            \/ \E t \in tokens :
                  role_checker_begin(r, endpoint, Bearer(t), body, 0)

Register(r, inputs, salts, keeps) ==
    \/ \E user_create \in inputs : register_begin(r, user_create)
    \/ register_find_username(r)
    \/ \E salt \in salts : register_find_email(r, salt)
    \/ \E keep \in keeps : register_insert_one(r, keep)

Login(r, inputs, keeps) ==
    \/ \E user_login \in inputs : login_begin(r, user_login)
    \/ \E keep \in keeps : login_find_one(r, keep)

RegisterInputs ==
    [username : Usernames, email : Emails, password : {"pw1"}, role : UserRole]

LoginInputs == [username : Usernames, password : Passwords]

AuthEndpoints ==
    {"get_current_user_info", "get_inventory", "delete_inventory_item"}

Next ==
    \/ lifespan
    \/ SkipDay
    \/ \E r \in {1} :
        \/ Register(r, RegisterInputs, {"salt1"}, {FALSE})
        \/ Login(r, LoginInputs, {FALSE})
        \/ Guarded(r, AuthEndpoints, CraftedTokens, Inputs({}, {}, {}, {1}))
        \/ get_current_user_find_one(r)
        \/ get_inventory_find(r)
        \/ delete_inventory_item_delete_one(r)

Spec == Init /\ [][Next]_vars

(***************************************************************************)
(* The resource endpoints, one request at a time, over a store that holds  *)
(* two registered users of any roles; clients present the tokens those     *)
(* users were handed, or no usable header.                                 *)
(***************************************************************************)
Registered(username, email, role) ==
    User(username, email, hash_password("pw1", "salt1"), role)

InitRBAC ==
    /\ db_ready = TRUE
    /\ users \in {<<Registered("alice", "a@x", p[1]), Registered("bob", "b@x", p[2])>> :
                     p \in {p \in UserRole \X UserRole : p[1] # p[2]}}
    /\ metal_prices = <<>>
    /\ inventory_items = <<>>
    /\ uuid_seq = 0
    /\ now = 0
    /\ req = [r \in Req |-> IdleReq]
    /\ issued = {}
    /\ tok_token = NoToken
    /\ tok_result = NoResult
    /\ tok_issue = NoIssue
    /\ pw_check = NoCheck
    /\ agent_cache = NoAgents
    /\ agent_built = [t \in AgentTypes |-> 0]
    /\ agent_req = [r \in Req |-> IdleAgentReq]

HandedTokens ==
    {create_access_token([sub |-> users[i].username, role |-> users[i].role],
                         NoDelta, 0) : i \in 1..Len(users)}

ResourceEndpoints == GuardedEndpoints \ {"get_current_user_info"}

Resources(r) ==
    \/ get_current_user_find_one(r)
    \/ update_metal_prices_insert_one(r)
    \/ get_metal_prices_begin(r)
    \/ get_metal_prices_find_one(r)
    \/ get_inventory_find(r)
    \/ create_inventory_item_find_one(r)
    \/ create_inventory_item_insert_one(r)
    \/ get_inventory_item_find_one(r)
    \/ update_inventory_item_find_one(r)
    \/ update_inventory_item_update_one(r)
    \/ update_inventory_item_refetch(r)
    \/ delete_inventory_item_delete_one(r)

NextRBAC ==
    \E r \in {1} :
        \/ Guarded(r, ResourceEndpoints, HandedTokens,
                   Inputs({p \in PriceInputs : p.platinum_price.given}, ItemCreates,
                          {u \in ItemUpdates : u.name.given /\ ~u.cost_price.given},
                          1..MaxItems))
        \/ Resources(r)

SpecRBAC == InitRBAC /\ [][NextRBAC]_vars

(***************************************************************************)
(* Tokens handed out and presented again later, while the store changes a  *)
(* user's role and the clock passes the expiry (SpecIssued).               *)
(***************************************************************************)
IssuedRegisterInputs ==
    [username : {"", "alice"}, email : Emails, password : {"pw1"},
     role : {ADMIN, SALESPERSON}]

IssuedLoginInputs == [username : {"", "alice"}, password : {"pw1"}]

IssuedEndpoints == {"get_inventory", "delete_inventory_item"}

NextIssued ==
    \/ lifespan
    \/ SkipDay
    \/ \E i \in 1..MaxUsers, role \in UserRole : store_set_role(i, role)
    \/ \E r \in {1} :
        \/ Register(r, IssuedRegisterInputs, {"salt1"}, BOOLEAN)
        \/ Login(r, IssuedLoginInputs, BOOLEAN)
        \/ Guarded(r, IssuedEndpoints, IssuedTokens, Inputs({}, {}, {}, {1}))
        \/ get_current_user_find_one(r)
        \/ get_inventory_find(r)
        \/ delete_inventory_item_delete_one(r)

SpecIssued == Init /\ [][NextIssued]_vars

(***************************************************************************)
(* Two registrations in flight at once (SpecRace).                         *)
(***************************************************************************)
InitRace ==
    /\ db_ready = TRUE
    /\ users = <<>>
    /\ metal_prices = <<>>
    /\ inventory_items = <<>>
    /\ uuid_seq = 0
    /\ now = 0
    /\ req = [r \in Req |-> IdleReq]
    /\ issued = {}
    /\ tok_token = NoToken
    /\ tok_result = NoResult
    /\ tok_issue = NoIssue
    /\ pw_check = NoCheck
    /\ agent_cache = NoAgents
    /\ agent_built = [t \in AgentTypes |-> 0]
    /\ agent_req = [r \in Req |-> IdleAgentReq]

RaceRegisterInputs ==
    [username : {"alice", "bob"}, email : Emails, password : {"pw1"},
     role : {ADMIN, MANAGER}]

NextRace == \E r \in Req : Register(r, RaceRegisterInputs, {"salt1"}, {FALSE})

SpecRace == InitRace /\ [][NextRace]_vars

(***************************************************************************)
(* Two guarded requests in flight at once, over a store of two users       *)
(* (SpecPair).                                                             *)
(***************************************************************************)
PairEndpoints ==
    {"get_current_user_info", "get_inventory", "delete_inventory_item"}

NextPair ==
    \E r \in Req :
        \/ Guarded(r, PairEndpoints, HandedTokens, Inputs({}, {}, {}, {1}))
        \/ get_current_user_find_one(r)
        \/ get_inventory_find(r)
        \/ delete_inventory_item_delete_one(r)

SpecPair == InitRBAC /\ [][NextPair]_vars

(***************************************************************************)
(* Registrations and logins, two requests in flight at once (SpecLogin).   *)
(***************************************************************************)
LoginRegisterInputs ==
    [username : {"alice"}, email : Emails, password : Passwords, role : {MANAGER}]

LoginLoginInputs == [username : {"alice", "bob"}, password : Passwords]

NextLogin ==
    \E r \in Req :
        \/ Register(r, LoginRegisterInputs, {"salt1"}, {FALSE})
        \/ Login(r, LoginLoginInputs, {FALSE})

SpecLogin == InitRace /\ [][NextLogin]_vars

(***************************************************************************)
(* The same tokens resolved again and again by /auth/me, in two request    *)
(* slots, while the store changes roles and the clock passes the expiry    *)
(* (SpecResolve).                                                          *)
(***************************************************************************)
\* the tokens alice was handed under each role she has had, bob's token, and
\* a token without a usable subject
ResolveTokens ==
    {create_access_token([sub |-> "alice", role |-> role], NoDelta, 0) :
        role \in UserRole}
    \cup {create_access_token([sub |-> "bob", role |-> MANAGER], NoDelta, 0)}
    \cup {t \in CraftedTokens : t.sub = "" /\ t.exp = NoExp}

NextResolve ==
    \/ SkipDay
    \/ \E i \in 1..MaxUsers, role \in UserRole : store_set_role(i, role)
    \/ \E r \in Req :
        \/ Guarded(r, {"get_current_user_info"}, ResolveTokens,
                   Inputs({}, {}, {}, {}))
        \/ get_current_user_find_one(r)

SpecResolve == InitRBAC /\ [][NextResolve]_vars

(***************************************************************************)
(* Credential-hasher harness: verify_password(s1, hash_password(s2)) for   *)
(* passwords up to and beyond the length bcrypt works on (SpecHash).       *)
(***************************************************************************)
LongPassword(last) ==
    "0123456789012345678901234567890123456789012345678901234567890123456789ab" \o last

HashPasswords ==
    {"", "pw1", "pw2", "Pw1", "pw1 ", LongPassword("c"), LongPassword("d")}

hash_then_verify(s1, s2, salt, on_long) ==
    /\ LET too_long == Len(s1) > BcryptMaxBytes \/ Len(s2) > BcryptMaxBytes
           raised == on_long = "ValueError" /\ too_long
       IN  pw_check' = [done |-> TRUE, plain |-> s1, secret |-> s2, salt |-> salt,
                        raised |-> raised,
                        value |-> ~raised /\ verify_password(s1, hash_password(s2, salt))]
    /\ UNCHANGED <<db_ready, stores, now, req, issued, tok_token, tok_result, tok_issue,
                 agents>>

NextHash ==
    \E s1 \in HashPasswords, s2 \in HashPasswords, salt \in Salts,
       on_long \in BcryptOnLongPassword :
        hash_then_verify(s1, s2, salt, on_long)

SpecHash == Init /\ [][NextHash]_vars

(***************************************************************************)
(* The agent endpoints in two request slots, from process start: the       *)
(* server hands requests to the app once lifespan has started it           *)
(* (SpecAgents).                                                           *)
(***************************************************************************)
ChatAgentTypes == AgentTypes \cup {"summary"}

NextAgents ==
    \/ lifespan
    \/ /\ db_ready
       /\ \E r \in Req :
            \/ \E agent_type \in ChatAgentTypes, constructs \in BOOLEAN :
                  chat_with_agent_begin(r, agent_type, constructs)
            \/ \E constructs \in BOOLEAN : search_and_summarize_begin(r, constructs)
            \/ \E success \in BOOLEAN : agent_execute(r, success)
            \/ \E c1 \in BOOLEAN, c2 \in BOOLEAN : get_agent_capabilities(r, c1, c2)

SpecAgents == Init /\ [][NextAgents]_vars

(***************************************************************************)
(* Item creations in two request slots, by the users of the store          *)
(* (SpecSku).                                                              *)
(***************************************************************************)
NextSku ==
    \E r \in Req :
        \/ Guarded(r, {"create_inventory_item"}, HandedTokens,
                   Inputs({}, ItemCreates, {}, {}))
        \/ get_current_user_find_one(r)
        \/ create_inventory_item_find_one(r)
        \/ create_inventory_item_insert_one(r)

SpecSku == InitRBAC /\ [][NextSku]_vars

(***************************************************************************)
(* Updates in one request slot (of the first item, of the second, and of   *)
(* an id no item has) and deletions of the first item in the other, over a *)
(* store of items a manager created one tick ago (SpecItems).              *)
(***************************************************************************)
StockedItem(i) ==
    InventoryItem(i, [sku |-> IF i = 1 THEN "GN001" ELSE IF i = 2 THEN "GR001"
                              ELSE "SB001",
                      name |-> "Ring", cost_price |-> 95], 0, "alice")

InitItems ==
    /\ db_ready = TRUE
    /\ users = <<Registered("alice", "a@x", MANAGER),
                 Registered("bob", "b@x", SALESPERSON)>>
    /\ metal_prices = <<>>
    /\ inventory_items = [i \in 1..MaxItems |-> StockedItem(i)]
    /\ uuid_seq = MaxItems
    /\ now = 1
    /\ req = [r \in Req |-> IdleReq]
    /\ issued = {}
    /\ tok_token = NoToken
    /\ tok_result = NoResult
    /\ tok_issue = NoIssue
    /\ pw_check = NoCheck
    /\ agent_cache = NoAgents
    /\ agent_built = [t \in AgentTypes |-> 0]
    /\ agent_req = [r \in Req |-> IdleAgentReq]

NextItems ==
    \/ Guarded(1, {"update_inventory_item"}, HandedTokens,
               Inputs({}, {}, ItemUpdates, {0, 1, 2}))
    \/ Guarded(2, {"delete_inventory_item"}, HandedTokens,
               Inputs({}, {}, {}, {1}))
    \/ \E r \in Req :
        \/ get_current_user_find_one(r)
        \/ update_inventory_item_find_one(r)
        \/ update_inventory_item_update_one(r)
        \/ update_inventory_item_refetch(r)
        \/ delete_inventory_item_delete_one(r)

SpecItems == InitItems /\ [][NextItems]_vars

(***************************************************************************)
(* Tokens of one subject with different role claims, presented in two      *)
(* request slots while the store changes the subject's role (SpecClaims).  *)
(***************************************************************************)
\* the tokens register or login can have signed for alice, one for each role
\* she has had
ClaimTokens ==
    {create_access_token([sub |-> "alice", role |-> role], NoDelta, 0) :
        role \in UserRole}

ClaimEndpoints == {"update_metal_prices", "delete_inventory_item"}

NextClaims ==
    \/ \E role \in UserRole : store_set_role(1, role)
    \/ \E r \in Req :
        \/ Guarded(r, ClaimEndpoints, ClaimTokens,
                   Inputs({p \in PriceInputs : p.platinum_price.given}, {}, {}, {1}))
        \/ get_current_user_find_one(r)
        \/ update_metal_prices_insert_one(r)
        \/ delete_inventory_item_delete_one(r)

SpecClaims == InitRBAC /\ [][NextClaims]_vars

(***************************************************************************)
(* Metal prices: price updates by the stored admin in two request slots,   *)
(* unauthenticated reads, and a clock that may or may not advance between  *)
(* two steps (SpecPrices).  A tick is the precision at which updated_at is *)
(* stored.                                                                 *)
(***************************************************************************)
NextPrices ==
    \/ Tick
    \/ \E r \in Req :
        \/ Guarded(r, {"update_metal_prices"}, HandedTokens,
                   Inputs(PriceInputs, {}, {}, {}))
        \/ get_current_user_find_one(r)
        \/ update_metal_prices_insert_one(r)
        \/ get_metal_prices_begin(r)
        \/ get_metal_prices_find_one(r)

SpecPrices == InitRBAC /\ [][NextPrices]_vars

(***************************************************************************)
(* Properties of the token service (SpecTok).                              *)
(***************************************************************************)
Verified == tok_result.at >= 0

\* C3: a token whose expiration instant is earlier than the verification time,
\* by any amount, is rejected with status 401 and yields no claims; when its
\* signature is valid the failure is the expired-token one.
C3_ExpiredTokenRejected ==
    (Verified /\ tok_token.exp # NoExp
              /\ tok_token.exp * TicksPerSecond < tok_result.at)
    => /\ ~tok_result.out.ok
       /\ tok_result.out.status = 401
       /\ (tok_token.structure = "jws" /\ tok_token.alg = ALGORITHM
             /\ tok_token.key = SECRET_KEY)
          => tok_result.out.detail = "Token has expired"

\* a validly signed token verified one tick after its expiration instant
C3_Witness ==
    /\ Verified
    /\ tok_token.key = SECRET_KEY /\ tok_token.structure = "jws"
    /\ tok_token.alg = ALGORITHM
    /\ tok_token.exp # NoExp
    /\ tok_token.exp * TicksPerSecond + 1 = tok_result.at
    /\ tok_result.out = HTTPException(401, "Token has expired")

\* C4: a token signed with another key, or whose structure is malformed, is
\* rejected with the invalid-token failure (401) and yields no claims.
C4_ForeignOrMalformedRejected ==
    (Verified /\ (tok_token.key # SECRET_KEY \/ tok_token.structure # "jws"))
    => tok_result.out = HTTPException(401, "Invalid token")

\* a well-formed, unexpired token signed with the other key was rejected
C4_Witness ==
    /\ Verified
    /\ tok_token.structure = "jws" /\ tok_token.alg = ALGORITHM
    /\ tok_token.key = OtherKey
    /\ tok_token.exp = 2 * DaySeconds
    /\ tok_result.out = HTTPException(401, "Invalid token")

(***************************************************************************)
(* Properties of the guard, one request at a time (Spec).                  *)
(***************************************************************************)
Done(r) == req[r].pc = "done" /\ req[r].endpoint # None

GuardedDone(r) == Done(r) /\ req[r].endpoint \in GuardedEndpoints

\* get_current_user got a verified token: the request carried a bearer
\* credential and decode_access_token raised nothing
TokenVerified(r) ==
    /\ security(req[r].header)
    /\ req[r].detail \notin {"Invalid token", "Token has expired"}

\* app.state.db existed when get_current_user reached for it
HadStore(r) == req[r].detail # "AttributeError: db"

StoredUser(username) == find_one(users, "username", username, NoUser)

AuthFailureDetails ==
    {"Not authenticated", "Invalid token", "Token has expired",
     "Invalid token payload", "User not found", "Invalid username or password"}

\* C9: every authentication failure (missing or malformed bearer credential,
\* invalid or expired token, missing subject, unknown user, failed login) has
\* status 401, and status 403 is only the role-membership failure of a user
\* that was resolved.
C9_AuthFailuresAre401 ==
    \A r \in Req :
        Done(r)
        => /\ req[r].detail \in AuthFailureDetails => req[r].status = 401
           /\ req[r].status = 403
              => /\ req[r].user # NoUser
                 /\ req[r].user.role \notin allowed_roles(req[r].endpoint)

\* C10: while app.state has no db, a request to a guarded endpoint ends with
\* 503, and no authentication step (token decoding, user lookup, role check)
\* has run for it.
AuthSteps == {"decode", "lookup", "role_check"}

C10_StoreUnavailableFirst ==
    \A r \in Req :
        (GuardedDone(r) /\ ~db_ready)
        => /\ req[r].status = 503
           /\ \A i \in 1..Len(req[r].steps) : req[r].steps[i] \notin AuthSteps

(***************************************************************************)
(* Properties of the resource endpoints (SpecRBAC).                        *)
(***************************************************************************)
Ran(r, step) == \E i \in 1..Len(req[r].steps) : req[r].steps[i] = step

\* C1: for the allow-list A of the endpoint and a request whose token
\* resolved to the stored record u, role_checker hands u on to the handler
\* when u.role is in A and otherwise ends the request with 403; no handler
\* body runs for a role outside A.
C1_RoleChecker ==
    \A r \in Req :
        (req[r].endpoint \in ResourceEndpoints /\ req[r].user # NoUser)
        => LET u == req[r].user
               A == allowed_roles(req[r].endpoint)
           IN  /\ u = StoredUser(req[r].header.credentials.sub)
               /\ IF u.role \in A
                  THEN Ran(r, "body") /\ req[r].status # 403
                  ELSE /\ ~Ran(r, "body")
                       /\ req[r].pc = "done" /\ req[r].status = 403

\* require_role(ADMIN) refused a manager with 403
C1_Witness ==
    \E r \in Req :
        /\ Done(r) /\ req[r].endpoint = "update_metal_prices"
        /\ req[r].user = StoredUser(req[r].header.credentials.sub)
        /\ req[r].user.role = MANAGER
        /\ req[r].status = 403

InventoryWrites ==
    {"create_inventory_item", "update_inventory_item", "delete_inventory_item"}

\* C2: a metal-price record is inserted only by a request authenticated as
\* an admin, an inventory item is created, updated or deleted only by a
\* request authenticated as admin or manager, inventory reads are refused to
\* none of the three roles, and a manager's price update and a salesperson's
\* inventory create or update end with 403.
C2_PermissionMatrix ==
    /\ [][/\ metal_prices' # metal_prices
             => \E r \in Req : /\ req[r].endpoint = "update_metal_prices"
                               /\ req[r].pc # "done"
                               /\ req[r].user = StoredUser(req[r].user.username)
                               /\ req[r].user.role = ADMIN
          /\ inventory_items' # inventory_items
             => \E r \in Req : /\ req[r].endpoint \in InventoryWrites
                               /\ req[r].pc # "done"
                               /\ req[r].user = StoredUser(req[r].user.username)
                               /\ req[r].user.role \in {ADMIN, MANAGER}]_vars
    /\ [](\A r \in Req :
            (Done(r) /\ req[r].user # NoUser)
            => /\ req[r].endpoint = "get_inventory" => req[r].status = 200
               /\ req[r].endpoint = "get_inventory_item"
                  => req[r].status \in {200, 404}
               /\ (req[r].endpoint = "update_metal_prices"
                     /\ req[r].user.role = MANAGER) => req[r].status = 403
               /\ (req[r].endpoint \in {"create_inventory_item",
                                        "update_inventory_item"}
                     /\ req[r].user.role = SALESPERSON) => req[r].status = 403)

\* with a price record and an item stored, a salesperson's create got 403
C2_Witness ==
    /\ metal_prices # <<>>
    /\ inventory_items # <<>>
    /\ \E r \in Req :
        /\ Done(r) /\ req[r].endpoint = "create_inventory_item"
        /\ req[r].user.role = SALESPERSON
        /\ req[r].status = 403

(***************************************************************************)
(* Properties of handed-out tokens (SpecIssued).                           *)
(***************************************************************************)
Presents(r, x) == req[r].header = Bearer(x.token)

\* C6: the token register or login handed out for a user is, while
\* unexpired, resolved to that user's record, accepted by every guard whose
\* allow-list contains the user's role and refused with 403 by every other.
C6_IssuedTokenResolves ==
    \A x \in issued : \A r \in Req :
        (GuardedDone(r) /\ Presents(r, x) /\ HadStore(r))
        => \/ /\ req[r].status = 401 /\ req[r].detail = "Token has expired"
              /\ IsExpired(x.token, now)
           \/ /\ req[r].user.username = x.user.username
              /\ req[r].user.email = x.user.email
              /\ req[r].status # 401
              /\ req[r].status = 403
                 <=> req[r].user.role \notin allowed_roles(req[r].endpoint)

\* C8 as stated: the guard's decision for a handed-out token is the one of
\* the role its user had at issuance, whatever the store holds since.
C8_AsStated ==
    \A x \in issued : \A r \in Req :
        (GuardedDone(r) /\ Presents(r, x) /\ Ran(r, "role_check"))
        => (req[r].status = 403
              <=> x.user.role \notin allowed_roles(req[r].endpoint))

\* C8 amended: the guard decides on the role of the record that is stored
\* for the token's subject when the guard looks it up; the role the user had
\* at issuance and the role claim of the token play no part.
C8_GuardReadsStoredRole ==
    [][\A r \in Req :
         (/\ req[r].pc = "find_user" /\ req'[r].pc # "find_user"
          /\ HasRoleCheck(req[r].endpoint)
          /\ StoredUser(req[r].username) # NoUser)
         => (req'[r].status = 403
               <=> StoredUser(req[r].username).role
                     \notin allowed_roles(req[r].endpoint))]_vars

\* a token handed to a user whose role was allowed at issuance is refused
\* after the stored role was changed
C8_Witness ==
    \E x \in issued : \E r \in Req :
        /\ GuardedDone(r) /\ Presents(r, x) /\ Ran(r, "role_check")
        /\ x.user.role \in allowed_roles(req[r].endpoint)
        /\ req[r].user.role \notin allowed_roles(req[r].endpoint)
        /\ req[r].status = 403

(***************************************************************************)
(* Properties of concurrent registration (SpecRace).                       *)
(***************************************************************************)
\* C7: no two stored users share a username and no two share an email.
C7_UniqueUsers ==
    \A i, j \in 1..Len(users) :
        i # j => /\ users[i].username # users[j].username
                 /\ users[i].email # users[j].email

(***************************************************************************)
(* The chain of one guarded request (Spec).                                *)
(***************************************************************************)
GuardOrder == <<"security", "decode", "lookup", "role_check", "body", "ensure_db">>

IsPrefix(s, t) == Len(s) <= Len(t) /\ SubSeq(t, 1, Len(s)) = s

\* the number of steps a request has run when it is rejected with `detail`
RejectedAfter(detail) ==
    CASE detail = "Not authenticated" -> 1
      [] detail \in {"Invalid token", "Token has expired", "Invalid token payload"} -> 2
      [] detail = "User not found" -> 3
      [] detail = "Access denied" -> 4
      [] OTHER -> 0

\* C11: the steps of a guarded request run in the order credential
\* extraction, token verification, user lookup, role check, endpoint body,
\* each at most once; a step has run only if the ones before it succeeded;
\* a request rejected with 401 or 403 has run nothing after the rejecting
\* step, is finished, and its endpoint body has not run.
C11_ChainOrder ==
    \A r \in Req :
        req[r].endpoint \in GuardedEndpoints
        => LET q == req[r]
               order == IF HasRoleCheck(q.endpoint) THEN GuardOrder
                        ELSE <<"security", "decode", "lookup">>
           IN  /\ IsPrefix(q.steps, order)
               /\ Ran(r, "decode") => security(q.header)
               /\ Ran(r, "lookup") => /\ SignatureVerifies(q.header.credentials)
                                      /\ ~Falsy(q.header.credentials.sub)
               /\ Ran(r, "role_check") => q.user # NoUser
               /\ Ran(r, "body")
                  => role_allowed(q.user, allowed_roles(q.endpoint))
               /\ q.status \in {401, 403}
                  => /\ q.pc = "done"
                     /\ ~Ran(r, "body")
                     /\ Len(q.steps) = RejectedAfter(q.detail)

\* a request went through the whole chain and its handler answered
C11_Witness ==
    \E r \in Req :
        /\ Done(r) /\ req[r].endpoint = "delete_inventory_item"
        /\ req[r].steps = GuardOrder
        /\ req[r].status = 404

(***************************************************************************)
(* Properties of two requests in flight (SpecPair).                        *)
(***************************************************************************)
\* C12: with two guarded requests in flight, a request that has resolved a
\* user holds the stored record whose username is the subject of its own
\* token, and what it answers names that user.
C12_NoCrossResolution ==
    \A r \in Req :
        (req[r].endpoint \in GuardedEndpoints /\ req[r].user # NoUser)
        => /\ req[r].user.username = req[r].header.credentials.sub
           /\ req[r].user = StoredUser(req[r].header.credentials.sub)
           /\ (Done(r) /\ req[r].endpoint = "get_current_user_info")
              => req[r].result.username = req[r].header.credentials.sub

\* both requests are in flight past their lookups, each with another user
C12_Witness ==
    /\ req[1].pc = "inventory_find" /\ req[2].pc = "delete_one"
    /\ req[1].user.username = "alice"
    /\ req[2].user.username = "bob"

(***************************************************************************)
(* The guard and the stored data (SpecRBAC).                               *)
(***************************************************************************)
\* the steps of the guard of request r: the arrival of a guarded request
\* (security dependency, get_current_user up to its find_one) and the
\* find_one with the role test that follows it
GuardStep(r) ==
    /\ req'[r] # req[r]
    /\ req[r].pc \in {"done", "find_user"}
    /\ req'[r].endpoint \in GuardedEndpoints

\* C13: no step of the guard, accepting or rejecting, changes the users,
\* inventory or metal-price collection; a request rejected with 401 or 403
\* consists of guard steps only, so it leaves the three collections as they
\* were.
C13_GuardChangesNoData ==
    [][\A r \in Req :
         GuardStep(r)
         => /\ UNCHANGED <<users, metal_prices, inventory_items>>
            /\ req'[r].status \in {401, 403} => req'[r].pc = "done"]_vars

\* a salesperson's delete of a stored item was refused, the item is stored
C13_Witness ==
    \E r \in Req :
        /\ Done(r) /\ req[r].endpoint = "delete_inventory_item"
        /\ req[r].status = 403 /\ req[r].steps[Len(req[r].steps)] = "role_check"
        /\ Matching(inventory_items, "id", req[r].body.item_id) # {}
        /\ metal_prices # <<>>

(***************************************************************************)
(* create_access_token followed by decode_access_token (SpecTok).          *)
(***************************************************************************)
\* tok_token was made by create_access_token with a ttl > 0 passed, and
\* decode_access_token has been applied to it since
RoundTrip ==
    /\ tok_issue.at >= 0
    /\ tok_issue.expires_delta.given /\ tok_issue.expires_delta.ticks > 0
    /\ Verified

C15_ExpIsIssuancePlusTtl ==
    tok_issue.at >= 0
    => LET ttl == IF tok_issue.expires_delta.given
                  THEN tok_issue.expires_delta.ticks
                  ELSE Minutes(60 * 24)
       IN  tok_token.exp = (tok_issue.at + ttl) \div TicksPerSecond

(***************************************************************************)
(* Registration and login (SpecRace, SpecLogin).                           *)
(***************************************************************************)
StoredEmail(email) == find_one(users, "email", email, NoUser)

\* C16: a register request whose username or email is stored when it
\* arrives is answered 400 without a token and never inserts.  Stored users
\* are never removed, so what is stored at arrival is stored at the lookups:
\* the lookup of a stored username ends the request with 400, so does the
\* lookup of a stored email, neither changes the users collection, and a
\* finished request answered 400 carries no token.
C16_DuplicateRegisterRejected ==
    /\ [][/\ IsPrefix(users, users')
          /\ \A r \in Req :
               (req[r].endpoint = "register" /\ req'[r] # req[r])
               => /\ (/\ req[r].pc = "register_find_username"
                      /\ StoredUser(req[r].body.username) # NoUser)
                     => /\ req'[r] = Raise(req[r], 400, "Username already exists")
                        /\ UNCHANGED <<users, issued>>
                  /\ (/\ req[r].pc = "register_find_email"
                      /\ StoredEmail(req[r].body.email) # NoUser)
                     => /\ req'[r] = Raise(req[r], 400, "Email already exists")
                        /\ UNCHANGED <<users, issued>>]_vars
    /\ [](\A r \in Req :
            (Done(r) /\ req[r].endpoint = "register" /\ req[r].status = 400)
            => req[r].result = NoBody)

\* a registration with a new username and a stored email was answered 400
C16_Witness ==
    \E r \in Req :
        /\ Done(r) /\ req[r].endpoint = "register"
        /\ req[r].status = 400 /\ req[r].detail = "Email already exists"
        /\ StoredUser(req[r].body.username) = NoUser
        /\ StoredEmail(req[r].body.email) # NoUser
        /\ Len(users) = 1

\* some stored record has the username and a hash the password verifies against
CredentialsMatch(user_login) ==
    \E i \in 1..Len(users) :
        /\ users[i].username = user_login.username
        /\ verify_password(user_login.password, users[i].hashed_password)

\* C17: the step in which login decides answers with a token exactly when a
\* stored record has the given username and a hash the given password
\* verifies against; otherwise it answers 401 "Invalid username or
\* password", whichever of the two failed, and changes nothing stored.
C17_LoginIff ==
    [][\A r \in Req :
         (req[r].pc = "login_find_one" /\ req'[r] # req[r])
         => IF CredentialsMatch(req[r].body)
            THEN /\ req'[r].status = 200
                 /\ req'[r].result.user.username = req[r].body.username
                 /\ SignatureVerifies(req'[r].result.access_token)
            ELSE /\ req'[r] = Raise(req[r], 401, "Invalid username or password")
                 /\ UNCHANGED <<users, metal_prices, inventory_items, issued>>]_vars

(***************************************************************************)
(* Repeated resolution (SpecResolve).                                      *)
(***************************************************************************)
\* what the lookup of get_current_user answers for a verified token, from
\* the store alone, and what get_current_user answers for any token, from the
\* clock and the store alone: the failure, or the stored record
Lookup(token, coll) ==
    LET user == find_one(coll, "username", token.sub, NoUser)
    IN  IF user = NoUser
        THEN [status |-> 401, detail |-> "User not found", user |-> NoUser]
        ELSE [status |-> 200, detail |-> None, user |-> user]

Resolution(token, t, coll) ==
    LET decoded == decode_access_token(token, t)
    IN  IF ~decoded.ok THEN [status |-> decoded.status, detail |-> decoded.detail,
                             user |-> NoUser]
        ELSE IF Falsy(token.sub)
        THEN [status |-> 401, detail |-> "Invalid token payload", user |-> NoUser]
        ELSE Lookup(token, coll)

Outcome(q) == [status |-> q.status, detail |-> q.detail, user |-> q.user]

C19_VerifyIff ==
    pw_check.done
    => ((~pw_check.raised /\ pw_check.value) <=> pw_check.plain = pw_check.secret)

(***************************************************************************)
(* Properties of the metal prices endpoints (SpecPrices).                  *)
(***************************************************************************)
Prices(p) == <<p.gold_price, p.silver_price, p.platinum_price>>

\* the read answers and the successful price updates of a step
PricesRead(r) == req[r].pc = "prices_find_one" /\ req'[r].pc = "done"
PricesPut(r) == req[r].pc = "prices_insert" /\ req'[r].pc = "done"

\* C20: GET /metal-prices returns the prices of the most recent successful
\* PUT /metal-prices, or all-zero prices with updated_by "system" when no PUT
\* has succeeded; each successful PUT appends a new price record whose
\* updated_by is the caller's username and leaves every earlier record
\* unchanged.
C20_LatestPutIsRead ==
    [][\A r \in Req :
         /\ PricesRead(r)
            => /\ req'[r].status = 200
               /\ IF metal_prices = <<>>
                  THEN /\ Prices(req'[r].result) = <<0, 0, 0>>
                       /\ req'[r].result.updated_by = "system"
                  ELSE LET last == metal_prices[Len(metal_prices)]
                       IN  /\ Prices(req'[r].result) = Prices(last)
                           /\ req'[r].result.updated_by = last.updated_by
         /\ PricesPut(r)
            => /\ Len(metal_prices') = Len(metal_prices) + 1
               /\ SubSeq(metal_prices', 1, Len(metal_prices)) = metal_prices
               /\ metal_prices'[Len(metal_prices')].updated_by = req[r].user.username]_vars

(***************************************************************************)
(* Properties of the agent cache (SpecAgents).                             *)
(***************************************************************************)
\* C21: for each agent type at most one instance is constructed during the
\* process lifetime, under every interleaving of concurrent first-use
\* requests, and every request for that type receives that same instance; a
\* request for an unknown agent type fails with 400 and leaves the cache
\* unchanged.
C21_OneAgentPerType ==
    [][/\ \A t \in AgentTypes : agent_built'[t] <= 1
       /\ \A r \in Req :
            /\ \A i \in 1..Len(agent_req'[r].agents) :
                  LET agent == agent_req'[r].agents[i]
                  IN  /\ agent # NoAgent
                      /\ agent = agent_cache'[agent.agent_type]
                      /\ agent_req'[r].agent_type \in AgentTypes
                            => agent.agent_type = agent_req'[r].agent_type
            /\ (agent_req'[r] # agent_req[r] /\ agent_req'[r].pc # "start"
                  /\ agent_req[r].pc = "done"
                  /\ agent_req'[r].endpoint = "chat_with_agent"
                  /\ agent_req'[r].agent_type \notin AgentTypes)
               => /\ agent_req'[r].pc = "done"
                  /\ agent_req'[r].status = 400
                  /\ UNCHANGED <<agent_cache, agent_built>>]_vars

\* two chat requests made their first use of the chat agent while neither
\* had finished, and hold the one instance that was built
C21_Witness ==
    /\ agent_req[1].pc = "execute" /\ agent_req[2].pc = "execute"
    /\ agent_req[1].agent_type = "chat" /\ agent_req[2].agent_type = "chat"
    /\ agent_req[1].agents = agent_req[2].agents
    /\ agent_built["chat"] = 1

(***************************************************************************)
(* Properties of item creation (SpecSku).                                  *)
(***************************************************************************)
StoredSku(sku) == find_one(inventory_items, "sku", sku, NoItem)

\* C22: after any sequence and any interleaving of create_inventory_item
\* requests no two stored items share a SKU; a create request whose SKU
\* already exists is rejected with 400 and inserts nothing.
C22_UniqueSkus ==
    [][/\ \A i, j \in 1..Len(inventory_items') :
            i # j => inventory_items'[i].sku # inventory_items'[j].sku
       /\ \A r \in Req :
            (/\ req[r].pc = "create_find_sku" /\ req'[r] # req[r]
             /\ StoredSku(req[r].body.sku) # NoItem)
            => /\ req'[r] = Raise(req[r], 400, "SKU already exists")
               /\ UNCHANGED inventory_items]_vars

(***************************************************************************)
(* Properties of item updates (SpecItems).                                 *)
(***************************************************************************)
StoredItem(item_id) == find_one(inventory_items, "id", item_id, NoItem)

\* C23: an update changes, on the item with the given id only, exactly the
\* fields supplied with a non-null value plus updated_at; the item's id, sku,
\* created_by and created_at and every other item stay unchanged; for an id
\* with no item the request is answered 404 and changes nothing.  The store
\* is written in the update_one step of the request and in no other, so what
\* holds of that step of every update holds of every successful one.
C23_UpdateFrame ==
    [][\A r \in Req :
         /\ (req[r].pc = "update_one" /\ req'[r] # req[r])
            => /\ Len(inventory_items') = Len(inventory_items)
               /\ \A i \in 1..Len(inventory_items) :
                    LET old == inventory_items[i]
                        new == inventory_items'[i]
                        item_update == req[r].body
                    IN  IF old.id # item_update.item_id THEN new = old
                        ELSE /\ new.id = old.id /\ new.sku = old.sku
                             /\ new.created_by = old.created_by
                             /\ new.created_at = old.created_at
                             /\ new.name = IF item_update.name.given
                                           THEN item_update.name.value ELSE old.name
                             /\ new.cost_price = IF item_update.cost_price.given
                                                 THEN item_update.cost_price.value
                                                 ELSE old.cost_price
                             /\ new.updated_at = req[r].result.updated_at.value
                             /\ new.updated_at >= old.updated_at
         /\ (/\ req[r].endpoint = "update_inventory_item" /\ req'[r] # req[r]
             /\ req[r].pc # "update_one")
            => UNCHANGED inventory_items
         /\ (/\ req[r].pc = "update_find" /\ req'[r] # req[r]
             /\ StoredItem(req[r].body.item_id) = NoItem)
            => req'[r] = Raise(req[r], 404, "Item not found")
         /\ (req[r].pc = "update_refetch" /\ req'[r].status = 200)
            => req'[r].result = StoredItem(req[r].body.item_id)]_vars

\* an update of the second item that supplied a name and no cost price has
\* succeeded: the item has the new name and a later updated_at, its other
\* fields and the first item are as they were created
C23_Witness ==
    /\ Done(1) /\ req[1].endpoint = "update_inventory_item" /\ req[1].status = 200
    /\ req[1].body.item_id = 2
    /\ req[1].body.name = Some("Band") /\ req[1].body.cost_price = Nothing
    /\ Len(inventory_items) = MaxItems
    /\ inventory_items[1] = StockedItem(1)
    /\ inventory_items[2] =
          [StockedItem(2) EXCEPT !.name = "Band", !.updated_at = 1]

\* C24: an update_inventory_item that runs while a delete_inventory_item of
\* the same id runs ends either with 404 or with the stored updated item as
\* its response; it never ends in any other failure, and the deleted item is
\* never stored again.
C24_UpdateVersusDelete ==
    [][/\ \A r \in Req :
            (req[r].endpoint = "update_inventory_item" /\ req[r].pc # "done"
               /\ req'[r].pc = "done")
            => \/ req'[r].status \in {401, 403, 404}
               \/ /\ req'[r].status = 200
                  /\ req'[r].result = StoredItem(req[r].body.item_id)
       /\ \A i \in 1..MaxItems :
            (\A k \in 1..Len(inventory_items) : inventory_items[k].id # i)
            => \A k \in 1..Len(inventory_items') : inventory_items'[k].id # i]_vars

(***************************************************************************)
(* Properties of the guard under different role claims (SpecClaims).       *)
(***************************************************************************)
\* the guard resolved the request's token to a stored record and decided
Decided(r) == GuardedDone(r) /\ Ran(r, "role_check")

Refused(r) == req[r].status = 403

\* C25: the guard's accept/reject decision depends only on the allow-list
\* and on the role of the user record stored for the token's subject when
\* the guard looks it up; the role claim of the token never influences it:
\* two requests to one endpoint with valid tokens of the same subject and
\* different role claims, resolved to records of the same role, get the same
\* decision, the one the allow-list makes for that role.
C25_RoleClaimIgnored ==
    \A r1, r2 \in Req :
        (/\ Decided(r1) /\ Decided(r2)
         /\ req[r1].endpoint = req[r2].endpoint
         /\ req[r1].header.credentials.sub = req[r2].header.credentials.sub
         /\ req[r1].user.role = req[r2].user.role)
        => /\ Refused(r1) <=> Refused(r2)
           /\ Refused(r1) <=> req[r1].user.role \notin allowed_roles(req[r1].endpoint)

\* alice is stored as salesperson; her token claiming admin and her token
\* claiming salesperson were both refused the deletion
C25_Witness ==
    /\ Decided(1) /\ Decided(2)
    /\ req[1].endpoint = "delete_inventory_item"
    /\ req[2].endpoint = "delete_inventory_item"
    /\ req[1].header.credentials.sub = "alice"
    /\ req[2].header.credentials.sub = "alice"
    /\ req[1].header.credentials.role = ADMIN
    /\ req[2].header.credentials.role = SALESPERSON
    /\ req[1].user.role = SALESPERSON /\ req[2].user.role = SALESPERSON
    /\ Refused(1) /\ Refused(2)

====
